---- MODULE Spec2Model ----
(***************************************************************************)
(* The school scoring and ranking engine of scoring.py (SchoolScorer).     *)
(*                                                                         *)
(* Representation.                                                         *)
(*   - A Python value that may be None, or a dict key that may be absent,  *)
(*     is an option: <<>> for None/absent, <<v>> for the value v.          *)
(*   - A str is a sequence of one-character strings, so that lower(), len  *)
(*     and the substring test are computed and not assumed.                *)
(*   - Scores are held in tenths of a point (85.0 is 850): every score the *)
(*     code returns went through round(x, 1).  Pass rates are in tenths of *)
(*     a percent and review ratings in thousandths of a rating point.       *)
(*     Intermediate values are exact fractions num/den; round(x, 1) is     *)
(*     round-half-to-even on the exact value (binary floating point error  *)
(*     of the division is not modelled).                                   *)
(*   - A school is a record whose fields are the leaves the scorer reads;  *)
(*     a missing parent dict and a missing leaf read the same through the  *)
(*     chained .get(key, {}) calls, so both are the absent leaf.           *)
(***************************************************************************)
EXTENDS Integers, Sequences, FiniteSets

VARIABLES schools,      \* self.schools: the loaded collection, in load order
          pc,           \* "idle", or the call that has just returned
          school,       \* argument of calculate_composite_score (option)
          weights,      \* argument weights (option: <<>> is None)
          preferences,  \* argument preferences (option)
          filters,      \* argument filters of rank_schools (option)
          ret,          \* the value the call returned (<<>> when idle)
          session_state,  \* st.session_state of app.py (<<>>: no UI session)
          dicts,        \* the weights dicts alive, by the name that owns them
          favorites_file  \* data/favorites.json (<<>>: no such file)

\* the state of the Streamlit session and of what it persists
ui == <<session_state, dicts, favorites_file>>

vars == <<schools, pc, school, weights, preferences, filters, ret, ui>>

----------------------------------------------------------------------------
(* Python values *)

None == <<>>

Some(v) == <<v>>

IsNone(o) == Len(o) = 0

Val(o) == o[1]

\* bool(x) of an optional number: None and 0 are falsy
TruthyNum(o) == ~IsNone(o) /\ Val(o) # 0

Min(a, b) == IF a <= b THEN a ELSE b

Max(a, b) == IF a >= b THEN a ELSE b

\* Points(p): p points in tenths of a point
Points(p) == p * 10

\* round(num/den, 1) of a non-negative value given in tenths: half to even
Round1(num, den) ==
    LET q == num \div den
        r == num % den
    IN  IF 2 * r < den THEN q
        ELSE IF 2 * r > den THEN q + 1
        ELSE IF q % 2 = 0 THEN q ELSE q + 1

\* str.lower() on one character
LowerChar(c) ==
    CASE c = "A" -> "a"
      [] c = "B" -> "b"
      [] c = "C" -> "c"
      [] c = "M" -> "m"
      [] c = "V" -> "v"
      [] OTHER -> c

\* str.lower()
Lower(s) == [i \in 1..Len(s) |-> LowerChar(s[i])]

\* a in b, for str a and b
IsSubstring(a, b) ==
    \E i \in 0..(Len(b) - Len(a)) : \A k \in 1..Len(a) : b[i + k] = a[k]

RECURSIVE SumOver(_, _)
\* sum(f[x] for x in S)
SumOver(S, f) ==
    IF S = {} THEN 0
    ELSE LET x == CHOOSE y \in S : TRUE
         IN  f[x] + SumOver(S \ {x}, f)

----------------------------------------------------------------------------
(* Program constants *)

Categories ==
    {"academic_performance", "proximity", "parent_satisfaction",
     "student_satisfaction", "facilities", "school_size",
     "extracurriculars", "special_programs"}

DEFAULT_WEIGHTS ==
    [academic_performance |-> 30, proximity |-> 20,
     parent_satisfaction |-> 15, student_satisfaction |-> 10,
     facilities |-> 10, school_size |-> 5,
     extracurriculars |-> 5, special_programs |-> 5]

Levels == {"vmbo", "havo", "vwo"}

\* level_weights, in tenths: vmbo 0.7, havo 1.0, vwo 1.5
level_weights == [vmbo |-> 7, havo |-> 10, vwo |-> 15]

preference_scores ==
    [small  |-> [small |-> 100, medium |-> 70, large |-> 50, very_large |-> 30],
     medium |-> [small |-> 70, medium |-> 100, large |-> 80, very_large |-> 60],
     large  |-> [small |-> 50, medium |-> 80, large |-> 100, very_large |-> 90],
     any    |-> [small |-> 80, medium |-> 80, large |-> 80, very_large |-> 80]]

----------------------------------------------------------------------------
(* Category scorers: each returns [score |-> option of tenths, details] *)

calculate_academic_score(s) ==
    LET exam == s.exam_scores
        inExam == Levels \cap DOMAIN exam
        level_data == {l \in inExam : TruthyNum(exam[l].pass_rate_2024_2025)}
        avgLevels == {l \in inExam : TruthyNum(exam[l].average_pass_rate_5yr)}
        candLevels == {l \in inExam : TruthyNum(exam[l].candidates_2024_2025)}
        only == CHOOSE l \in level_data : TRUE
        \* current_rate = curN / curD (tenths of a percent)
        curN == IF Cardinality(level_data) = 1
                THEN Val(exam[only].pass_rate_2024_2025)
                ELSE SumOver(level_data,
                       [l \in level_data |->
                          Val(exam[l].pass_rate_2024_2025) * level_weights[l]])
        curD == IF Cardinality(level_data) = 1 THEN 1
                ELSE SumOver(level_data,
                       [l \in level_data |-> level_weights[l]])
        avgN == SumOver(avgLevels,
                  [l \in avgLevels |-> Val(exam[l].average_pass_rate_5yr)])
        avgD == Cardinality(avgLevels)
        \* final_rate = finN / finD
        finN == IF avgD > 0 THEN 7 * curN * avgD + 3 * avgN * curD ELSE curN
        finD == IF avgD > 0 THEN 10 * curD * avgD ELSE curD
        total_candidates ==
            SumOver(candLevels,
                  [l \in candLevels |-> Val(exam[l].candidates_2024_2025)])
        \* reliability_bonus = min(total/500*5, 5) points = bonusN/10 tenths
        bonusN == Min(total_candidates, 500)
        \* final_rate + reliability_bonus = sumN / sumD tenths
        sumN == finN * 10 + bonusN * finD
        sumD == finD * 10
        capped == sumN >= Points(100) * sumD
    IN  IF DOMAIN exam = {}
          THEN [score |-> None, details |-> [text |-> "No exam data available"]]
        ELSE IF level_data = {}
          THEN [score |-> None, details |-> [text |-> "No pass rate data"]]
        ELSE [score |-> Some(IF capped THEN Points(100) ELSE Round1(sumN, sumD)),
              details |-> [text |-> "pass rate, candidates",
                           final_rate |-> Round1(finN, finD),
                           total_candidates |-> total_candidates]]

\* the proximity scorer with the last segment starting from 70 points
calculate_proximity_score_from70(s) ==
    LET bike_mins == s.bike_minutes
        transit_mins == s.transit_minutes
        primary_mins == IF TruthyNum(bike_mins) THEN Val(bike_mins)
                        ELSE Val(transit_mins)
        score == IF primary_mins <= 10 THEN 100 - primary_mins
                 ELSE IF primary_mins <= 30 THEN 90 - (primary_mins - 10) * 2
                 ELSE Max(70 - (primary_mins - 30), 0)
        method == IF TruthyNum(bike_mins) THEN "bike" ELSE "transit"
    IN  IF ~TruthyNum(bike_mins) /\ ~TruthyNum(transit_mins)
          THEN [score |-> None,
                details |-> [text |-> "No commute data", mins |-> None,
                             method |-> "none"]]
        ELSE [score |-> Some(Points(score)),
              details |-> [text |-> "mins by", mins |-> Some(primary_mins),
                           method |-> method]]

calculate_proximity_score(s) ==
    LET bike_mins == s.bike_minutes
        transit_mins == s.transit_minutes
        primary_mins == IF TruthyNum(bike_mins) THEN Val(bike_mins)
                        ELSE Val(transit_mins)
        score == IF primary_mins <= 10 THEN 100 - primary_mins
                 ELSE IF primary_mins <= 30 THEN 90 - (primary_mins - 10) * 2
                 ELSE Max(50 - (primary_mins - 30), 0)
        method == IF TruthyNum(bike_mins) THEN "bike" ELSE "transit"
    IN  IF ~TruthyNum(bike_mins) /\ ~TruthyNum(transit_mins)
          THEN [score |-> None,
                details |-> [text |-> "No commute data", mins |-> None,
                             method |-> "none"]]
        ELSE [score |-> Some(Points(score)),
              details |-> [text |-> "mins by", mins |-> Some(primary_mins),
                           method |-> method]]

calculate_parent_satisfaction_score(s) ==
    LET reviews == s.parent_reviews
        latest == reviews[1]
        rating == latest.overall_rating
        recommend == latest.would_recommend
    IN  IF Len(reviews) = 0
          THEN [score |-> None, details |-> [text |-> "No parent reviews"]]
        ELSE IF ~TruthyNum(rating)
          THEN [score |-> None, details |-> [text |-> "No rating available"]]
        \* rating * 10 points, the rating being in thousandths
        ELSE [score |-> Some(Round1(Val(rating), 10)),
              details |-> [text |-> "/10 rating", rating |-> Val(rating),
                           recommend |-> IF TruthyNum(recommend)
                                         THEN recommend ELSE None]]

calculate_student_satisfaction_score(s) ==
    LET reviews == s.student_reviews
        latest == reviews[1]
        rating == latest.overall_rating
        voice_matters == latest.voice_matters
    IN  IF Len(reviews) = 0
          THEN [score |-> None, details |-> [text |-> "No student reviews"]]
        ELSE IF ~TruthyNum(rating)
          THEN [score |-> None, details |-> [text |-> "No rating available"]]
        ELSE [score |-> Some(Round1(Val(rating), 10)),
              details |-> [text |-> "/10 rating", rating |-> Val(rating),
                           voice_matters |-> IF TruthyNum(voice_matters)
                                             THEN voice_matters ELSE None]]

\* the facilities scorer giving the classroom points for any text
calculate_facilities_score_any_text(s) ==
    LET technology == s.technology
        sports == s.sports_facilities
        classrooms == s.classrooms_labs_quality
        library == s.library
        score == 50
                 + (IF "description" \in DOMAIN technology
                       /\ Len(technology.description) > 0 THEN 15 ELSE 0)
                 + (IF Len(sports) > 0 THEN 15 ELSE 0)
                 + (IF Len(classrooms) > 0 THEN 10 ELSE 0)
                 + (IF library # {} THEN 10 ELSE 0)
        details_parts ==
            (IF DOMAIN technology # {} THEN {"technology"} ELSE {})
            \cup (IF Len(sports) > 0 THEN {"sports"} ELSE {})
            \cup (IF Len(classrooms) > 0 THEN {"specialized classrooms"} ELSE {})
    IN  [score |-> Some(Points(Min(score, 100))),
         details |-> IF details_parts # {} THEN details_parts
                     ELSE {"Basic facilities"}]

calculate_facilities_score(s) ==
    LET technology == s.technology
        sports == s.sports_facilities
        classrooms == s.classrooms_labs_quality
        library == s.library
        score == 50
                 + (IF "description" \in DOMAIN technology
                       /\ Len(technology.description) > 0 THEN 15 ELSE 0)
                 + (IF Len(sports) > 0 THEN 15 ELSE 0)
                 + (IF Len(classrooms) > 50 THEN 10 ELSE 0)
                 + (IF library # {} THEN 10 ELSE 0)
        details_parts ==
            (IF DOMAIN technology # {} THEN {"technology"} ELSE {})
            \cup (IF Len(sports) > 0 THEN {"sports"} ELSE {})
            \cup (IF Len(classrooms) > 0 THEN {"specialized classrooms"} ELSE {})
    IN  [score |-> Some(Points(Min(score, 100))),
         details |-> IF details_parts # {} THEN details_parts
                     ELSE {"Basic facilities"}]

\* the size category with 1000 students counted as large
size_category_from1000(enrollment) ==
    IF enrollment > 1500 THEN "very_large"
    ELSE IF enrollment >= 1000 THEN "large"
    ELSE IF enrollment >= 500 THEN "medium" ELSE "small"

\* size_category of a truthy enrollment
size_category(enrollment) ==
    IF enrollment > 1500 THEN "very_large"
    ELSE IF enrollment > 1000 THEN "large"
    ELSE IF enrollment >= 500 THEN "medium" ELSE "small"

\* the row lookup falling back to the default preference
preference_row_default_medium(preferred_size) ==
    IF preferred_size \in DOMAIN preference_scores
    THEN preference_scores[preferred_size]
    ELSE preference_scores["medium"]

\* preference_scores.get(preferred_size, preference_scores['any'])
preference_row(preferred_size) ==
    IF preferred_size \in DOMAIN preference_scores
    THEN preference_scores[preferred_size]
    ELSE preference_scores["any"]

calculate_school_size_score(s, preferred_size) ==
    LET enrollment == s.enrollment_total
        n == Val(enrollment)
        row == preference_row(preferred_size)
    IN  IF ~TruthyNum(enrollment)
          THEN [score |-> None, details |-> [text |-> "No enrollment data"]]
        ELSE [score |-> Some(Points(row[size_category(n)])),
              details |-> [text |-> "students", enrollment |-> n,
                           size_category |-> size_category(n)]]

calculate_extracurriculars_score(s) ==
    LET total_activities == Len(s.extracurricular_activities)
                            + Len(s.after_school_programs)
    IN  IF total_activities = 0
          THEN [score |-> Some(Points(50)),
                details |-> [text |-> "No data on activities"]]
        ELSE [score |-> Some(Points(Min(50 + total_activities * 5, 100))),
              details |-> [text |-> "activities listed",
                           total_activities |-> total_activities]]

\* the special programs scorer reporting an empty list as missing data
calculate_special_programs_score_or_null(s) ==
    LET programs == s.special_programs
    IN  IF Len(programs) = 0
          THEN [score |-> None,
                details |-> [text |-> "No special programs listed"]]
        ELSE [score |-> Some(Points(Min(50 + Len(programs) * 10, 100))),
              details |-> [text |-> "program list",
                           listed |-> SubSeq(programs, 1, Min(Len(programs), 3)),
                           more |-> Max(Len(programs) - 3, 0)]]

calculate_special_programs_score(s) ==
    LET programs == s.special_programs
    IN  IF Len(programs) = 0
          THEN [score |-> Some(Points(50)),
                details |-> [text |-> "No special programs listed"]]
        ELSE [score |-> Some(Points(Min(50 + Len(programs) * 10, 100))),
              details |-> [text |-> "program list",
                           listed |-> SubSeq(programs, 1, Min(Len(programs), 3)),
                           more |-> Max(Len(programs) - 3, 0)]]

----------------------------------------------------------------------------
(* Composite aggregator *)

\* the categories the loop over weights.items() adds: those scores knows
\* and whose score is not None
ContributingCategories(weights_used, scores) ==
    {c \in DOMAIN weights_used :
        c \in DOMAIN scores /\ ~IsNone(scores[c].score)}

\* weighted_sum after the loop, in tenths
WeightedSum(cats, weights_used, scores) ==
    SumOver(cats, [c \in cats |-> Val(scores[c].score) * weights_used[c]])
\* total_weight as the sum of every weight given (a fixed denominator)
TotalWeightAll(cats, weights_used) ==
    SumOver(DOMAIN weights_used, weights_used)

\* total_weight counting the keys that name no category as well
TotalWeightWithUnknown(cats, weights_used) ==
    LET counted == cats \cup (DOMAIN weights_used \ Categories)
    IN  SumOver(counted, [c \in counted |-> weights_used[c]])

\* total_weight after the loop
TotalWeight(cats, weights_used) ==
    SumOver(cats, [c \in cats |-> weights_used[c]])
\* the composite with 0 substituted where there is nothing to average
CompositeValueZero(weighted_sum, total_weight) ==
    IF total_weight > 0 /\ weighted_sum # 0
    THEN Some(Round1(weighted_sum, total_weight))
    ELSE Some(0)

\* composite_score = weighted_sum / total_weight if total_weight > 0 else
\* None, then round(composite_score, 1) if composite_score else None:
\* "if composite_score" is false for None and for 0.0
CompositeValue(weighted_sum, total_weight) ==
    IF total_weight > 0 /\ weighted_sum # 0
    THEN Some(Round1(weighted_sum, total_weight))
    ELSE None

calculate_composite_score(s, w, prefs) ==
    LET weights_used == IF IsNone(w) THEN DEFAULT_WEIGHTS ELSE Val(w)
        prefs_used == IF IsNone(prefs) THEN <<>> ELSE Val(prefs)
        preferred_size == IF "school_size" \in DOMAIN prefs_used
                          THEN prefs_used["school_size"] ELSE "medium"
        scores ==
            [academic_performance |-> calculate_academic_score(s),
             proximity |-> calculate_proximity_score(s),
             parent_satisfaction |-> calculate_parent_satisfaction_score(s),
             student_satisfaction |-> calculate_student_satisfaction_score(s),
             facilities |-> calculate_facilities_score(s),
             school_size |-> calculate_school_size_score(s, preferred_size),
             extracurriculars |-> calculate_extracurriculars_score(s),
             special_programs |-> calculate_special_programs_score(s)]
        cats == ContributingCategories(weights_used, scores)
        weighted_sum == WeightedSum(cats, weights_used, scores)
        total_weight == TotalWeight(cats, weights_used)
    IN  [composite_score |-> CompositeValue(weighted_sum, total_weight),
         category_scores |-> scores,
         weights_used |-> weights_used,
         total_weight |-> total_weight]

----------------------------------------------------------------------------
(* Filter and rank pipeline *)

\* the school_type block asking for every type of the filter
SchoolTypeFailsUnlessAll(s, f) ==
    /\ "school_type" \in DOMAIN f
    /\ Len(f["school_type"]) > 0
    /\ LET school_types == IF IsNone(s.type) THEN <<>> ELSE Val(s.type)
       IN  ~ \A i \in 1..Len(f["school_type"]) :
                \E j \in 1..Len(school_types) :
                    f["school_type"][i] = school_types[j]

\* the school_type block returns False
SchoolTypeFails(s, f) ==
    /\ "school_type" \in DOMAIN f
    /\ Len(f["school_type"]) > 0
    /\ LET school_types == IF IsNone(s.type) THEN <<>> ELSE Val(s.type)
       IN  ~ \E i \in 1..Len(f["school_type"]) :
                \E j \in 1..Len(school_types) :
                    f["school_type"][i] = school_types[j]

\* the religious_affiliation block returns False
AffiliationFails(s, f) ==
    /\ "religious_affiliation" \in DOMAIN f
    /\ Len(f["religious_affiliation"]) > 0
    /\ LET affiliation == IF IsNone(s.religious_affiliation) THEN <<>>
                          ELSE Val(s.religious_affiliation)
       IN  ~IsSubstring(Lower(f["religious_affiliation"]), Lower(affiliation))
\* the commute filter falling back to the transit duration, as the
\* proximity scorer does
CommuteFailsOnPrimary(s, f) ==
    /\ "max_commute_minutes" \in DOMAIN f
    /\ LET mins == IF TruthyNum(s.bike_minutes) THEN s.bike_minutes
                   ELSE s.transit_minutes
       IN  TruthyNum(mins) /\ Val(mins) > f["max_commute_minutes"]

\* the max_commute_minutes block returns False
CommuteFails(s, f) ==
    /\ "max_commute_minutes" \in DOMAIN f
    /\ TruthyNum(s.bike_minutes)
    /\ Val(s.bike_minutes) > f["max_commute_minutes"]
\* the city filter skipping a school that has no city
CityFailsPermissive(s, f) ==
    /\ "city" \in DOMAIN f
    /\ Len(f["city"]) > 0
    /\ ~IsNone(s.city)
    /\ Lower(Val(s.city)) # Lower(f["city"])

\* the city filter comparing without lower()
CityFailsCaseSensitive(s, f) ==
    /\ "city" \in DOMAIN f
    /\ Len(f["city"]) > 0
    /\ LET city == IF IsNone(s.city) THEN <<>> ELSE Val(s.city)
       IN  city # f["city"]

\* the city block returns False
CityFails(s, f) ==
    /\ "city" \in DOMAIN f
    /\ Len(f["city"]) > 0
    /\ LET city == IF IsNone(s.city) THEN <<>> ELSE Val(s.city)
       IN  Lower(city) # Lower(f["city"])

_passes_filters(s, f) ==
    /\ ~SchoolTypeFails(s, f)
    /\ ~AffiliationFails(s, f)
    /\ ~CommuteFails(s, f)
    /\ ~CityFails(s, f)
RECURSIVE InsertAscending(_, _)
\* the sort without reverse=True
InsertAscending(sorted, x) ==
    IF Len(sorted) = 0 THEN <<x>>
    ELSE IF Val(Head(sorted).score_data.composite_score)
              <= Val(x.score_data.composite_score)
         THEN <<Head(sorted)>> \o InsertAscending(Tail(sorted), x)
         ELSE <<x>> \o sorted

RECURSIVE InsertBeforeTies(_, _)
\* an ascending sort reversed afterwards: equal scores change places
InsertBeforeTies(sorted, x) ==
    IF Len(sorted) = 0 THEN <<x>>
    ELSE IF Val(Head(sorted).score_data.composite_score)
              > Val(x.score_data.composite_score)
         THEN <<Head(sorted)>> \o InsertBeforeTies(Tail(sorted), x)
         ELSE <<x>> \o sorted

RECURSIVE InsertDescending(_, _)
\* x put after every entry whose composite_score is >= its own
InsertDescending(sorted, x) ==
    IF Len(sorted) = 0 THEN <<x>>
    ELSE IF Val(Head(sorted).score_data.composite_score)
              >= Val(x.score_data.composite_score)
         THEN <<Head(sorted)>> \o InsertDescending(Tail(sorted), x)
         ELSE <<x>> \o sorted

RECURSIVE SortDescending(_)
\* list.sort(key=composite_score, reverse=True): descending and stable
SortDescending(results) ==
    IF Len(results) = 0 THEN <<>>
    ELSE InsertDescending(
            SortDescending(SubSeq(results, 1, Len(results) - 1)),
            results[Len(results)])

RECURSIVE CollectResults(_, _, _, _)
\* the loop of rank_schools over self.schools, in order
CollectResults(coll, w, prefs, f) ==
    IF Len(coll) = 0 THEN <<>>
    ELSE LET s == Head(coll)
             rest == CollectResults(Tail(coll), w, prefs, f)
             \* "if filters:" is false for None and for the empty dict
             filtered == ~IsNone(f) /\ DOMAIN Val(f) # {}
                         /\ ~_passes_filters(s, Val(f))
             score_data == calculate_composite_score(s, w, prefs)
         IN  IF filtered THEN rest
             ELSE IF ~IsNone(score_data.composite_score)
                  THEN <<[school |-> s, score_data |-> score_data]>> \o rest
                  ELSE rest
\* the ranking with the filters never applied
rank_schools_unfiltered(coll, w, prefs, f) ==
    SortDescending(CollectResults(coll, w, prefs, None))

rank_schools(coll, w, prefs, f) ==
    SortDescending(CollectResults(coll, w, prefs, f))

----------------------------------------------------------------------------
(* Inputs: school records, weights, preferences and filters *)

MaxWeight == 2

MaxSchools == 3

\* a record that has only the required fields
BlankSchool ==
    [id |-> 0, city |-> None, type |-> None, religious_affiliation |-> None,
     enrollment_total |-> None, exam_scores |-> <<>>,
     special_programs |-> <<>>, extracurricular_activities |-> <<>>,
     after_school_programs |-> <<>>,
     bike_minutes |-> None, transit_minutes |-> None,
     technology |-> <<>>, sports_facilities |-> <<>>,
     classrooms_labs_quality |-> <<>>, library |-> {},
     parent_reviews |-> <<>>, student_reviews |-> <<>>]

\* a review object with the given overall_rating (thousandths)
Review(rating) ==
    [overall_rating |-> rating, would_recommend |-> None,
     voice_matters |-> None]

\* exam_scores of a school with vwo only: 80.0 % passed, 400 candidates
VwoOnly ==
    [vwo |-> [pass_rate_2024_2025 |-> Some(800),
              average_pass_rate_5yr |-> None,
              candidates_2024_2025 |-> Some(400)]]

\* the school records calculate_composite_score is called with
ScoreSchools ==
    {[BlankSchool EXCEPT !.bike_minutes = b, !.transit_minutes = t,
                         !.parent_reviews = pr, !.student_reviews = sr,
                         !.enrollment_total = e, !.exam_scores = x] :
        b \in {None, Some(0), Some(10), Some(80)},
        t \in {None, Some(20)},
        pr \in {<<>>, <<Review(Some(8000))>>},
        sr \in {<<>>, <<Review(Some(7000))>>},
        e \in {None, Some(1200)},
        x \in {<<>>, VwoOnly}}

WeightKeys == {"proximity", "parent_satisfaction", "facilities"}

\* weights maps that also hold a key that names no category
UnknownKeyMaps ==
    UNION {{[k \in D \cup {"reputation"} |->
                IF k = "reputation" THEN MaxWeight ELSE w[k]] :
              w \in [D -> 0..MaxWeight]} : D \in SUBSET WeightKeys}

\* weights maps: every map over a subset of WeightKeys, and the defaults
\* with one slider moved
WeightMaps ==
    UNION {[D -> 0..MaxWeight] : D \in SUBSET WeightKeys}
    \cup {[DEFAULT_WEIGHTS EXCEPT ![c] = v] :
             c \in Categories, v \in 0..MaxWeight}
    \cup UnknownKeyMaps

WeightArgs == {None} \cup {Some(w) : w \in WeightMaps}

PreferenceArgs ==
    {None, Some(<<>>), Some([school_size |-> "large"])}

\* the records load_schools may have loaded (ids are given by position)
SchoolProfiles ==
    { [BlankSchool EXCEPT !.city = Some(<<"A", "m">>),
                          !.type = Some(<<"VWO">>),
                          !.religious_affiliation = Some(<<"C", "a">>),
                          !.bike_minutes = Some(10),
                          !.parent_reviews = <<Review(Some(8000))>>,
                          !.enrollment_total = Some(1200),
                          !.exam_scores = VwoOnly],
      [BlankSchool EXCEPT !.city = Some(<<"a", "M">>),
                          !.type = Some(<<"HAVO", "VMBO">>),
                          !.bike_minutes = Some(25),
                          !.transit_minutes = Some(20)],
      [BlankSchool EXCEPT !.city = Some(<<"A", "v">>),
                          !.type = Some(<<"VWO">>),
                          !.religious_affiliation = Some(<<"b", "c", "a">>),
                          !.bike_minutes = Some(80),
                          !.parent_reviews = <<Review(Some(8000))>>],
      [BlankSchool EXCEPT !.transit_minutes = Some(45)],
      [BlankSchool EXCEPT !.city = Some(<<"A", "m">>),
                          !.bike_minutes = Some(0),
                          !.parent_reviews = <<Review(Some(6500))>>] }

\* self.schools after load_schools: up to MaxSchools records, distinct ids
Collections ==
    UNION {{[i \in 1..n |-> [c[i] EXCEPT !.id = i]] :
               c \in [1..n -> SchoolProfiles]} : n \in 0..MaxSchools}

RankWeightArgs ==
    {None, Some([proximity |-> 1]), Some([parent_satisfaction |-> 1]),
     Some([parent_satisfaction |-> MaxWeight, proximity |-> 1])}

RankPreferenceArgs == {None, Some([school_size |-> "small"])}

FilterArgs ==
    {None, Some(<<>>)}
    \cup {Some([city |-> c]) : c \in {<<"a", "m">>, <<"A", "V">>, <<>>}}
    \cup {Some([max_commute_minutes |-> m]) : m \in {0, 20, 60}}
    \cup {Some([religious_affiliation |-> a]) : a \in {<<"c", "A">>, <<>>}}
    \cup {Some([school_type |-> ty]) : ty \in {<<"VWO", "Gymnasium">>, <<>>}}
    \cup {Some([city |-> <<"a", "m">>, max_commute_minutes |-> 20,
                religious_affiliation |-> <<>>,
                school_type |-> <<"HAVO">>])}

\* the longest commute a scorer is called with, in minutes
MaxMinutes == 81

\* the longest review list a scorer is called with
MaxReviews == 2

\* records that differ in the two commute durations only
ProximitySchools ==
    {[BlankSchool EXCEPT !.bike_minutes = b, !.transit_minutes = t] :
        b \in {None} \cup {Some(m) : m \in 0..MaxMinutes},
        t \in {None, Some(0), Some(20)}}

\* overall_rating values, in thousandths: absent, 0, 7.826, 8.0 and 10.0
Ratings == {None, Some(0), Some(7826), Some(8000), Some(10000)}

\* review lists of up to MaxReviews reviews
ReviewLists ==
    UNION {[1..n -> {Review(r) : r \in Ratings}] : n \in 0..MaxReviews}

ParentSchools == {[BlankSchool EXCEPT !.parent_reviews = l] : l \in ReviewLists}

StudentSchools ==
    {[BlankSchool EXCEPT !.student_reviews = l] : l \in ReviewLists}

\* records that differ in basic_info.enrollment.total only
SizeSchools ==
    {[BlankSchool EXCEPT !.enrollment_total = e] :
        e \in {None, Some(1), Some(499), Some(500), Some(999), Some(1000),
               Some(1001), Some(1200), Some(1500), Some(1501)}}

\* the preferred_size argument: the four rows of the table and two strings
\* that are none of them
PreferredSizes == {"small", "medium", "large", "any", "tiny", ""}

\* the object of one exam level: rates in tenths of a percent, values for
\* which round() of the code's float and Round1 of the exact quotient agree
LevelObjects ==
    [pass_rate_2024_2025 : {None, Some(0), Some(800), Some(1000)},
     average_pass_rate_5yr : {None, Some(0), Some(913)},
     candidates_2024_2025 : {None, Some(400)}]

\* exam_scores with any of the three levels
AcademicSchools ==
    {[BlankSchool EXCEPT !.exam_scores = x] :
        x \in UNION {[D -> LevelObjects] : D \in SUBSET Levels}}

\* a classrooms_labs_quality text of 51 characters
LongText == [i \in 1..51 |-> "x"]

FacilitySchools ==
    {[BlankSchool EXCEPT !.technology = te, !.sports_facilities = sp,
                         !.classrooms_labs_quality = cl, !.library = li] :
        te \in {<<>>, [description |-> <<>>], [description |-> <<"w", "i">>],
                [computers |-> <<"3">>]},
        sp \in {<<>>, <<"gym">>},
        cl \in {<<>>, <<"l", "a", "b">>, LongText},
        li \in {{}, {"description"}}}

ActivitySchools ==
    {[BlankSchool EXCEPT !.extracurricular_activities = ex,
                         !.after_school_programs = af] :
        ex \in {<<>>, <<"chess">>, [i \in 1..11 |-> "club"]},
        af \in {<<>>, <<"homework">>}}

ProgramSchools ==
    {[BlankSchool EXCEPT !.special_programs = sp] :
        sp \in {[i \in 1..n |-> "program"] : n \in 0..6}}

\* JSON school records as load_schools reads them: an object is a function
\* on its keys, a list or a text is a sequence, and the empty object, list
\* and text are all <<>>.
Empty == <<>>

\* the value None standing where an object is expected
Null == [null |-> Empty]

IsNull(x) == x = Null

\* bool(x) of an object or None
TruthyObject(x) == x # Empty /\ ~IsNull(x)

\* d.get(key) where the code writes d.get(key, {})
GetWithoutDefault(d, key, default) ==
    IF key \in DOMAIN d THEN d[key] ELSE Null

\* d.get(key, default) for an object default
Get(d, key, default) == IF key \in DOMAIN d THEN d[key] ELSE default

\* d.get(key, []) and d.get(key, '')
GetList(d, key) == IF key \in DOMAIN d THEN d[key] ELSE <<>>

\* d.get(key) of a number: None when the key is absent
GetNumber(d, key) == IF key \in DOMAIN d THEN Some(d[key]) ELSE None

\* the review object as the satisfaction scorers read it
ReadReview(r) ==
    [overall_rating |-> GetNumber(r, "overall_rating"),
     would_recommend |-> GetNumber(r, "would_recommend"),
     voice_matters |-> GetNumber(r, "voice_matters")]

\* the level object as the academic scorer reads it
ReadLevel(o) ==
    [pass_rate_2024_2025 |-> GetNumber(o, "pass_rate_2024_2025"),
     average_pass_rate_5yr |-> GetNumber(o, "average_pass_rate_5yr"),
     candidates_2024_2025 |-> GetNumber(o, "candidates_2024_2025")]

\* what the .get chains of the scorers read from the JSON record j
ReadSchool(j) ==
    LET basic_info == Get(j, "basic_info", Empty)
        academic == Get(j, "academic_performance", Empty)
        exam_scores == Get(academic, "exam_scores", Empty)
        location == Get(j, "location", Empty)
        bike == Get(location, "bike_accessibility", Empty)
        transit == Get(Get(location, "public_transport", Empty),
                       "commute_from_home", Empty)
        reviews == Get(j, "reviews_reputation", Empty)
        parent_reviews == GetList(reviews, "parent_reviews")
        student_reviews == GetList(reviews, "student_reviews")
        facilities == Get(j, "facilities", Empty)
    IN  [BlankSchool EXCEPT
           !.id = j.id,
           !.enrollment_total =
               GetNumber(Get(basic_info, "enrollment", Empty), "total"),
           !.exam_scores =
               [l \in DOMAIN exam_scores |-> ReadLevel(exam_scores[l])],
           !.special_programs = GetList(academic, "special_programs"),
           !.extracurricular_activities =
               GetList(academic, "extracurricular_activities"),
           !.after_school_programs =
               GetList(Get(j, "student_support", Empty),
                       "after_school_programs"),
           !.bike_minutes = GetNumber(bike, "duration_minutes"),
           !.transit_minutes = GetNumber(transit, "duration_minutes"),
           !.technology = Get(facilities, "technology", Empty),
           !.sports_facilities = GetList(facilities, "sports_facilities"),
           !.classrooms_labs_quality =
               GetList(facilities, "classrooms_labs_quality"),
           !.library = DOMAIN Get(facilities, "library", Empty),
           !.parent_reviews =
               [i \in 1..Len(parent_reviews) |-> ReadReview(parent_reviews[i])],
           !.student_reviews =
               [i \in 1..Len(student_reviews) |->
                   ReadReview(student_reviews[i])]]

\* the scorer of category c raises on the JSON record j: an attribute or an
\* item is taken from None or from an empty list, or None enters arithmetic
ScorerRaises(c, j) ==
    LET s == ReadSchool(j)
        academic == Get(j, "academic_performance", Empty)
        exam_scores == Get(academic, "exam_scores", Empty)
        location == Get(j, "location", Empty)
        bike == Get(location, "bike_accessibility", Empty)
        public_transport == Get(location, "public_transport", Empty)
        transit == Get(public_transport, "commute_from_home", Empty)
        reviews_reputation == Get(j, "reviews_reputation", Empty)
        reviews == IF c = "parent_satisfaction"
                   THEN GetList(reviews_reputation, "parent_reviews")
                   ELSE GetList(reviews_reputation, "student_reviews")
        facilities == Get(j, "facilities", Empty)
        basic_info == Get(j, "basic_info", Empty)
    IN  CASE c = "academic_performance" ->
               \/ IsNull(academic)
               \/ /\ TruthyObject(exam_scores)
                  /\ \E l \in Levels \cap DOMAIN exam_scores :
                        IsNull(exam_scores[l])
          [] c = "proximity" ->
               \/ IsNull(location)
               \/ IsNull(bike)
               \/ IsNull(public_transport)
               \/ IsNull(transit)
               \* primary_mins <= 10 with primary_mins None
               \/ /\ ~(~TruthyNum(s.bike_minutes)
                         /\ ~TruthyNum(s.transit_minutes))
                  /\ ~TruthyNum(s.bike_minutes)
                  /\ IsNone(s.transit_minutes)
          [] c \in {"parent_satisfaction", "student_satisfaction"} ->
               \/ IsNull(reviews_reputation)
               \* reviews[0] of an empty list, latest.get of None
               \/ /\ ~(Len(reviews) = 0)
                  /\ (Len(reviews) = 0 \/ IsNull(reviews[1]))
               \* rating * 10 with rating None
               \/ /\ ~(Len(reviews) = 0)
                  /\ ~IsNull(reviews[1])
                  /\ ~(~TruthyNum(GetNumber(reviews[1], "overall_rating")))
                  /\ IsNone(GetNumber(reviews[1], "overall_rating"))
          [] c = "facilities" ->
               \/ IsNull(facilities)
               \/ IsNull(Get(facilities, "technology", Empty))
          [] c = "school_size" ->
               \/ IsNull(basic_info)
               \/ IsNull(Get(basic_info, "enrollment", Empty))
               \* enrollment > 1500 with enrollment None
               \/ /\ ~(~TruthyNum(s.enrollment_total))
                  /\ IsNone(s.enrollment_total)
          [] c = "extracurriculars" ->
               \/ IsNull(academic)
               \/ IsNull(Get(j, "student_support", Empty))
          [] c = "special_programs" -> IsNull(academic)

\* the object d with any subset of its keys absent
DropKeys(d) == {[k \in D |-> d[k]] : D \in SUBSET DOMAIN d}

\* a record with id and basic_info.name and any subset of the sections of d
WithSections(d) ==
    {[k \in {"id", "basic_info"} \cup DOMAIN o |->
         IF k = "id" THEN 1
         ELSE IF k = "basic_info" THEN [name |-> <<"n">>]
         ELSE o[k]] : o \in DropKeys(d)}

\* exam_scores with any level absent or empty and any field of it absent
SparseExamScores ==
    LET level == DropKeys([pass_rate_2024_2025 |-> 800,
                           average_pass_rate_5yr |-> 913,
                           candidates_2024_2025 |-> 400])
    IN  UNION {DropKeys([vmbo |-> a, havo |-> b, vwo |-> c]) :
                  a \in level, b \in level, c \in level}

SparseLocation ==
    LET duration == DropKeys([duration_minutes |-> 12])
        transport == UNION {DropKeys([commute_from_home |-> d]) :
                               d \in duration}
    IN  UNION {DropKeys([bike_accessibility |-> b, public_transport |-> t]) :
                  b \in duration, t \in transport}

\* review lists: empty, or reviews with any of their fields absent
SparseReviews(extra) ==
    LET review == DropKeys([k \in {"overall_rating", extra} |-> 8000])
    IN  {<<>>} \cup {<<r>> : r \in review}
        \cup {<<r, q>> : r \in review, q \in review}

SparseFacilities ==
    UNION {DropKeys([technology |-> te, sports_facilities |-> sp,
                     classrooms_labs_quality |-> cl, library |-> li]) :
              te \in DropKeys([description |-> <<"w", "i">>]),
              sp \in {<<>>, <<"gym">>},
              cl \in {<<>>, LongText},
              li \in DropKeys([description |-> <<"b">>])}

\* the well-formed sparse records the scorer of category c is called with:
\* every part the scorer reads is absent, empty or filled, at every level
SparseRecords(c) ==
    CASE c = "academic_performance" ->
           UNION {WithSections([academic_performance |-> a]) :
                     a \in UNION {DropKeys([exam_scores |-> x]) :
                                     x \in SparseExamScores}}
      [] c = "proximity" ->
           UNION {WithSections([location |-> l]) : l \in SparseLocation}
      [] c = "parent_satisfaction" ->
           UNION {WithSections([reviews_reputation |-> r]) :
                     r \in UNION {DropKeys([parent_reviews |-> l]) :
                                     l \in SparseReviews("would_recommend")}}
      [] c = "student_satisfaction" ->
           UNION {WithSections([reviews_reputation |-> r]) :
                     r \in UNION {DropKeys([student_reviews |-> l]) :
                                     l \in SparseReviews("voice_matters")}}
      [] c = "facilities" ->
           UNION {WithSections([facilities |-> f]) : f \in SparseFacilities}
      [] c = "school_size" ->
           {[id |-> 1, basic_info |-> b] :
               b \in {[name |-> <<"n">>]}
                     \cup {[name |-> <<"n">>, enrollment |-> e] :
                              e \in DropKeys([total |-> 1200])}}
      [] c = "extracurriculars" ->
           UNION {WithSections([academic_performance |-> a,
                                student_support |-> u]) :
                     a \in UNION {DropKeys([extracurricular_activities |-> l]) :
                                     l \in {<<>>, <<"chess">>}},
                     u \in UNION {DropKeys([after_school_programs |-> l]) :
                                     l \in {<<>>, <<"homework">>}}}
      [] c = "special_programs" ->
           UNION {WithSections([academic_performance |-> a]) :
                     a \in UNION {DropKeys([special_programs |-> l]) :
                                     l \in {<<>>, <<"tto">>}}}

\* the records each category scorer is called with: the scorer reads no
\* other field of the record
ScorerInputs(c) ==
    CASE c = "academic_performance" -> AcademicSchools
      [] c = "proximity" -> ProximitySchools
      [] c = "parent_satisfaction" -> ParentSchools
      [] c = "student_satisfaction" -> StudentSchools
      [] c = "facilities" -> FacilitySchools
      [] c = "school_size" -> SizeSchools
      [] c = "extracurriculars" -> ActivitySchools
      [] c = "special_programs" -> ProgramSchools

\* the scorer of category c
CategoryScore(c, s, preferred_size) ==
    CASE c = "academic_performance" -> calculate_academic_score(s)
      [] c = "proximity" -> calculate_proximity_score(s)
      [] c = "parent_satisfaction" -> calculate_parent_satisfaction_score(s)
      [] c = "student_satisfaction" -> calculate_student_satisfaction_score(s)
      [] c = "facilities" -> calculate_facilities_score(s)
      [] c = "school_size" -> calculate_school_size_score(s, preferred_size)
      [] c = "extracurriculars" -> calculate_extracurriculars_score(s)
      [] c = "special_programs" -> calculate_special_programs_score(s)

----------------------------------------------------------------------------
(* The scorer as a state machine: a call takes its arguments, returns its  *)
(* value, and the caller goes on to the next call.                         *)

TypeOK ==
    /\ pc \in {"idle", "args", "composite", "again", "ranked", "scored",
              "sparse", "reset", "toggled"}
    /\ Len(schools) <= MaxSchools

Idle ==
    /\ pc = "idle"
    /\ school = None
    /\ weights = None
    /\ preferences = None
    /\ filters = None
    /\ ret = None

\* the scorer used as a library (the __main__ of scoring.py): app.py has
\* not run, only the class attribute DEFAULT_WEIGHTS exists
NoSession ==
    /\ session_state = None
    /\ dicts = [DEFAULT_WEIGHTS |-> DEFAULT_WEIGHTS]
    /\ favorites_file = None

\* a scorer that loaded some collection
Init == schools \in Collections /\ Idle /\ NoSession

\* a scorer that loaded the one school that has every kind of data
InitScore ==
    /\ schools \in {c \in Collections :
                      Len(c) = 1 /\ c[1].exam_scores = VwoOnly}
    /\ Idle
    /\ NoSession

CallComposite ==
    /\ pc = "idle"
    /\ \E s \in ScoreSchools, w \in WeightArgs, p \in PreferenceArgs :
          /\ school' = Some(s)
          /\ weights' = w
          /\ preferences' = p
          /\ ret' = calculate_composite_score(s, w, p)
    /\ pc' = "composite"
    /\ UNCHANGED <<schools, filters, ui>>

\* rank_schools keeping the ranked schools as the collection
CallRankInPlace ==
    /\ pc = "idle"
    /\ \E w \in RankWeightArgs, p \in RankPreferenceArgs, f \in FilterArgs :
          /\ weights' = w
          /\ preferences' = p
          /\ filters' = f
          /\ ret' = rank_schools(schools, w, p, f)
    /\ schools' = [k \in 1..Len(ret') |-> ret'[k].school]
    /\ pc' = "ranked"
    /\ UNCHANGED <<school, ui>>

CallRank ==
    /\ pc = "idle"
    /\ \E w \in RankWeightArgs, p \in RankPreferenceArgs, f \in FilterArgs :
          /\ weights' = w
          /\ preferences' = p
          /\ filters' = f
          /\ ret' = rank_schools(schools, w, p, f)
    /\ pc' = "ranked"
    /\ UNCHANGED <<schools, school, ui>>

\* one category scorer called on its own
CallScorer ==
    /\ pc = "idle"
    /\ \E c \in Categories :
          \E s \in ScorerInputs(c),
             p \in IF c = "school_size" THEN PreferredSizes ELSE {"medium"} :
                /\ school' = Some(s)
                /\ ret' = [scorer |-> c, preferred_size |-> p,
                           result |-> CategoryScore(c, s, p)]
    /\ pc' = "scored"
    /\ UNCHANGED <<schools, weights, preferences, filters, ui>>

\* the caller holds a school record, a weights map and preferences
PrepareArgs ==
    /\ pc = "idle"
    /\ \E s \in ScoreSchools, w \in WeightArgs, p \in PreferenceArgs :
          /\ school' = Some(s)
          /\ weights' = w
          /\ preferences' = p
    /\ pc' = "args"
    /\ UNCHANGED <<schools, filters, ret, ui>>

\* a call that deletes the entries of weight 0 from the caller's weights map
CompositeOnArgsPruning ==
    /\ pc \in {"args", "composite"}
    /\ ret' = calculate_composite_score(Val(school), weights, preferences)
    /\ weights' = IF IsNone(weights) THEN None
                  ELSE Some([c \in {k \in DOMAIN Val(weights) :
                                       Val(weights)[k] # 0}
                               |-> Val(weights)[c]])
    /\ pc' = IF pc = "args" THEN "composite" ELSE "again"
    /\ UNCHANGED <<schools, school, preferences, filters, ui>>

\* calculate_composite_score called on the objects the caller holds, a
\* first and a second time: the body assigns to locals only
CompositeOnArgs ==
    /\ pc \in {"args", "composite"}
    /\ ret' = calculate_composite_score(Val(school), weights, preferences)
    /\ pc' = IF pc = "args" THEN "composite" ELSE "again"
    /\ UNCHANGED <<schools, school, weights, preferences, filters, ui>>

\* one category scorer called on a JSON record: it raises or returns
CallScorerOnRecord ==
    /\ pc = "idle"
    /\ \E c \in Categories :
          \E j \in SparseRecords(c) :
             ret' = [scorer |-> c, record |-> j,
                     raised |-> ScorerRaises(c, j),
                     result |-> IF ScorerRaises(c, j) THEN None
                                ELSE CategoryScore(c, ReadSchool(j), "medium")]
    /\ pc' = "sparse"
    /\ UNCHANGED <<schools, school, weights, preferences, filters, ui>>

Return ==
    /\ pc # "idle"
    /\ pc' = "idle"
    /\ school' = None
    /\ weights' = None
    /\ preferences' = None
    /\ filters' = None
    /\ ret' = None
    /\ UNCHANGED <<schools, ui>>

NextScore == CallComposite \/ Return

NextRank == CallRank \/ Return

\* calls of calculate_composite_score on arbitrary school records
SpecScore == InitScore /\ [][NextScore]_vars

\* calls of rank_schools on the loaded collection
SpecRank == Init /\ [][NextRank]_vars

NextScorers == CallScorer \/ CallScorerOnRecord \/ Return

\* calls of the category scorers on arbitrary school records
SpecScorers == InitScore /\ [][NextScorers]_vars

NextRepeat == PrepareArgs \/ CompositeOnArgs \/ Return

\* calculate_composite_score called twice on the same objects
SpecRepeat == InitScore /\ [][NextRepeat]_vars

-----------------------------------------------------------------------------
(* The Streamlit session of app.py.                                        *)
(*                                                                         *)
(* A weights dict is an object that a name refers to: dicts holds the      *)
(* object of the class attribute SchoolScorer.DEFAULT_WEIGHTS and the      *)
(* object made by the last DEFAULT_WEIGHTS.copy() of the session, and      *)
(* session_state.weights is the name of the object it refers to, so that   *)
(* a write through st.session_state.weights[c] lands in that object.       *)
(* favorites.json is absent, or text that json.load rejects (json is       *)
(* None), or a JSON object, which may lack the key 'favorites'.            *)

\* upper ends of the eight weight sliders; the lower end of each is 0
slider_max ==
    [academic_performance |-> 50, proximity |-> 40, facilities |-> 20,
     school_size |-> 15, parent_satisfaction |-> 30,
     student_satisfaction |-> 25, extracurriculars |-> 15,
     special_programs |-> 15]

\* the values a slider is moved to: its two ends
SliderValues(c) == {0, slider_max[c]}

\* the options of the "Preferred School Size" selectbox
size_options == {"small", "medium", "large", "any"}

\* set(l): the members of a list
SetOf(l) == {l[k] : k \in 1..Len(l)}

\* list(s): the members of a set, each once, in the order the build iterates
RECURSIVE ListsOf(_)
ListsOf(s) ==
    IF s = {} THEN {<<>>}
    ELSE UNION {{<<x>> \o l : l \in ListsOf(s \ {x})} : x \in s}

\* json.load of the file text
FileText(json) == Some([json |-> json])

\* the favorites lists a file of an earlier session may hold: none, one
\* school, a school twice, and the school that has since left the data
\* (the data held MaxSchools schools then, the last of them is gone)
StoredLists ==
    {<<>>, <<1>>, <<1, 1>>, <<MaxSchools, 1>>}

FavoritesFiles ==
    {None, FileText(None), FileText(Some(<<>>))}
    \cup {FileText(Some([favorites |-> l])) : l \in StoredLists}

load_favorites(file) ==
    IF IsNone(file) THEN {}
    ELSE IF IsNone(Val(file).json) THEN {}
    ELSE LET data == Val(Val(file).json)
         IN  IF "favorites" \in DOMAIN data THEN SetOf(data.favorites)
             ELSE {}

\* save_favorites: what the file is afterwards, and whether the dump was
\* written.  An IOError is caught: it leaves the file as it was (mkdir or
\* open failed) or cut short (the write failed after open truncated it).
save_favorites(file, favorites) ==
    {[file |-> FileText(Some([favorites |-> l])), saved |-> TRUE] :
        l \in ListsOf(favorites)}
    \cup {[file |-> file, saved |-> FALSE],
          [file |-> FileText(None), saved |-> FALSE]}

\* the favorite button adding a school whether or not it is a favorite
toggle_favorite_add_only(favorites, school_id) == favorites \cup {school_id}

\* the body of the favorite button of render_school_card
toggle_favorite(favorites, school_id) ==
    LET is_favorite == school_id \in favorites
    IN  IF is_favorite THEN favorites \ {school_id}
        ELSE favorites \cup {school_id}

\* the dict st.session_state.weights refers to
SessionWeights == dicts[session_state.weights]

\* the first run of the script: session state initialisation; reading the
\* file may fail with an IOError, which load_favorites answers with set()
InitSession(files) ==
    /\ favorites_file \in files
    /\ dicts = [DEFAULT_WEIGHTS |-> DEFAULT_WEIGHTS,
                session |-> DEFAULT_WEIGHTS]
    /\ session_state \in
          {[favorites |-> f, weights |-> "session",
            preferences |-> [school_size |-> "medium"]] :
              f \in {load_favorites(favorites_file), {}}}

\* the weights page of a first session (no favorites were ever saved), on
\* the one-school collection
InitWeightsPage ==
    /\ schools \in {c \in Collections :
                      Len(c) = 1 /\ c[1].exam_scores = VwoOnly}
    /\ Idle
    /\ InitSession({None})

\* the school cards of the collection that one school has left
InitFavorites ==
    /\ schools \in {c \in Collections :
                      /\ Len(c) = MaxSchools - 1
                      /\ \A k \in 1..Len(c) : c[k].exam_scores = VwoOnly}
    /\ Idle
    /\ InitSession(FavoritesFiles)

\* a slider of the Customize Weights page is moved
MoveSlider ==
    /\ pc = "idle"
    /\ \E c \in Categories :
          \E v \in SliderValues(c) :
             dicts' = [dicts EXCEPT ![session_state.weights][c] = v]
    /\ UNCHANGED <<schools, pc, school, weights, preferences, filters, ret,
                   session_state, favorites_file>>

\* another option of the selectbox is chosen
SelectSchoolSize ==
    /\ pc = "idle"
    /\ \E p \in size_options :
          session_state' =
              [session_state EXCEPT !.preferences.school_size = p]
    /\ UNCHANGED <<schools, pc, school, weights, preferences, filters, ret,
                   dicts, favorites_file>>

\* a reset that hands the session the class attribute itself
ResetToDefaultsSharing ==
    /\ pc \in {"idle", "composite", "ranked"}
    /\ session_state' =
          [session_state EXCEPT !.weights = "DEFAULT_WEIGHTS",
                                !.preferences = [school_size |-> "medium"]]
    /\ pc' = "reset"
    /\ UNCHANGED <<schools, school, weights, preferences, filters, ret,
                   dicts, favorites_file>>

\* the "Reset to Defaults" button, pressed on the page as it is or after
\* a page that scored or ranked (the arguments of that call stay on record)
ResetToDefaults ==
    /\ pc \in {"idle", "composite", "ranked"}
    /\ dicts' = [dicts EXCEPT !.session = dicts.DEFAULT_WEIGHTS]
    /\ session_state' =
          [session_state EXCEPT !.weights = "session",
                                !.preferences = [school_size |-> "medium"]]
    /\ pc' = "reset"
    /\ UNCHANGED <<schools, school, weights, preferences, filters, ret,
                   favorites_file>>

\* the filter dict the Rankings page builds from its three widgets
build_filters(filter_city, filter_type, max_commute) ==
    LET keys == (IF filter_city # <<"A", "l", "l">> THEN {"city"} ELSE {})
                \cup (IF filter_type # <<>> THEN {"school_type"} ELSE {})
                \cup (IF max_commute < 60 THEN {"max_commute_minutes"}
                      ELSE {})
        built == [k \in keys |->
                    IF k = "city" THEN filter_city
                    ELSE IF k = "school_type" THEN filter_type
                    ELSE max_commute]
    IN  IF keys # {} THEN Some(built) ELSE None

\* the widget settings the Rankings page is shown with
FilterWidgets ==
    {<<(<<"A", "l", "l">>), <<>>, 60>>,
     <<(<<"A", "m">>), (<<"VWO">>), 20>>}

\* a page scores one school with the session's weights and preferences
ScoreInSession ==
    /\ pc = "idle"
    /\ \E k \in 1..Len(schools) :
          /\ school' = Some(schools[k])
          /\ weights' = Some(SessionWeights)
          /\ preferences' = Some(session_state.preferences)
          /\ ret' = calculate_composite_score(schools[k], weights',
                                              preferences')
    /\ pc' = "composite"
    /\ UNCHANGED <<schools, filters, ui>>

\* the Rankings page ranks with the session's weights and preferences
RankInSession ==
    /\ pc = "idle"
    /\ \E g \in FilterWidgets :
          /\ weights' = Some(SessionWeights)
          /\ preferences' = Some(session_state.preferences)
          /\ filters' = build_filters(g[1], g[2], g[3])
          /\ ret' = rank_schools(schools, weights', preferences', filters')
    /\ pc' = "ranked"
    /\ UNCHANGED <<schools, school, ui>>

\* the favorite button of a school card is pressed, the first time or
\* again on the page that the rerun drew
ToggleFavorite ==
    /\ pc \in {"idle", "toggled"}
    /\ \E k \in 1..Len(schools) :
          LET school_id == schools[k].id
              favorites == toggle_favorite(session_state.favorites,
                                           school_id)
          IN  /\ session_state' =
                     [session_state EXCEPT !.favorites = favorites]
              /\ \E o \in save_favorites(favorites_file, favorites) :
                    /\ favorites_file' = o.file
                    /\ ret' = [school_id |-> school_id,
                               before |-> session_state.favorites,
                               saved |-> o.saved,
                               earlier |->
                                  IF pc = "toggled"
                                  THEN Some([school_id |-> ret.school_id,
                                             before |-> ret.before])
                                  ELSE None]
    /\ pc' = "toggled"
    /\ UNCHANGED <<schools, school, weights, preferences, filters, dicts>>

NextWeightsPage ==
    \/ MoveSlider
    \/ SelectSchoolSize
    \/ ResetToDefaults
    \/ ScoreInSession
    \/ RankInSession
    \/ Return

\* a session on the weights page and the pages that score
SpecWeightsPage == InitWeightsPage /\ [][NextWeightsPage]_vars

NextFavorites == ToggleFavorite \/ Return

\* a session pressing favorite buttons
SpecFavorites == InitFavorites /\ [][NextFavorites]_vars

----------------------------------------------------------------------------
(* What the claims speak of, read off the state after a call *)

\* the weights map the call works with: the argument, the defaults for None
ArgWeights == IF IsNone(weights) THEN DEFAULT_WEIGHTS ELSE Val(weights)

\* the categories named in the weights map whose returned score is null
NullCategories ==
    {c \in DOMAIN ArgWeights \cap Categories :
        IsNone(ret.category_scores[c].score)}

\* the categories named in the weights map whose returned score is a number
NonNullCategories ==
    {c \in DOMAIN ArgWeights \cap Categories :
        ~IsNone(ret.category_scores[c].score)}

\* sum of score * weight over the non-null categories, in tenths
ExpectedWeightedSum ==
    SumOver(NonNullCategories,
        [c \in NonNullCategories |->
            Val(ret.category_scores[c].score) * ArgWeights[c]])

\* sum of the weights of the non-null categories
ExpectedTotalWeight ==
    SumOver(NonNullCategories, [c \in NonNullCategories |-> ArgWeights[c]])

\* the school has data for all 8 categories
CompleteData == \A c \in Categories : ~IsNone(ret.category_scores[c].score)

\* the composite of a school of the collection under the call's arguments
Composite(s) == calculate_composite_score(s, weights, preferences)

\* rank_schools applies the filters ("if filters:")
FiltersApply == ~IsNone(filters) /\ DOMAIN Val(filters) # {}

\* school s passes the filters of the call
Passes(s) == ~FiltersApply \/ _passes_filters(s, Val(filters))

\* the i-th school of the collection is in the returned ranking
InOutput(i) == \E k \in 1..Len(ret) : ret[k].school = schools[i]

\* the composite_score of the k-th entry of the returned ranking
RankScore(k) == Val(ret[k].score_data.composite_score)

\* the filters argument is exactly {key: value}
OnlyFilter(key) == ~IsNone(filters) /\ DOMAIN Val(filters) = {key}

SameLetter(x, y) ==
    \/ x = y
    \/ {x, y} \in {{"A", "a"}, {"B", "b"}, {"C", "c"}, {"M", "m"}, {"V", "v"}}

\* strings a and b are equal when case is ignored
EqualIgnoringCase(a, b) ==
    /\ Len(a) = Len(b)
    /\ \A k \in 1..Len(a) : SameLetter(a[k], b[k])

\* the scorer of category c has just returned
Scored(c) == pc = "scored" /\ ret.scorer = c

\* the score the scorer returned is a number
HasScore == ~IsNone(ret.result.score)

\* the proximity score of a record whose only commute is m minutes by bike
ProximityAt(m) ==
    calculate_proximity_score(
        [BlankSchool EXCEPT !.bike_minutes = Some(m)]).score

\* the record has one commute duration, of m minutes
OnlyCommute(s, m) ==
    \/ s.bike_minutes = Some(m) /\ s.transit_minutes = None
    \/ s.bike_minutes = None /\ s.transit_minutes = Some(m)

\* the review list cut after its first review
FirstOnly(l) == IF Len(l) = 0 THEN <<>> ELSE <<l[1]>>

----------------------------------------------------------------------------
(* Claims about calculate_composite_score, under SpecScore *)

\* C1: a category whose score is null adds nothing to the weighted sum and
\* nothing to total_weight: total_weight is the sum of the weights of the
\* non-null categories of the weights map, the composite is the rounded
\* quotient of the sums over those categories, another weight for a null
\* category gives the same composite, and with the default weights and only
\* parent_satisfaction null the denominator is 85.
C1_NullCategoriesDoNotCount ==
    pc = "composite" =>
        /\ ret.total_weight = ExpectedTotalWeight
        /\ (ExpectedTotalWeight > 0 /\ ExpectedWeightedSum # 0) =>
              ret.composite_score
                = Some(Round1(ExpectedWeightedSum, ExpectedTotalWeight))
        /\ \A c \in NullCategories : \A v \in 0..(MaxWeight + 1) :
              calculate_composite_score(Val(school),
                  Some([ArgWeights EXCEPT ![c] = v]), preferences).composite_score
                = ret.composite_score
        /\ (IsNone(weights) /\ NullCategories = {"parent_satisfaction"}) =>
              /\ ret.total_weight = 85
              /\ ret.composite_score = Some(Round1(ExpectedWeightedSum, 85))

\* a call with the default weights on a school that lacks only the parent
\* reviews
C1_Witness ==
    /\ pc = "composite"
    /\ IsNone(weights)
    /\ NullCategories = {"parent_satisfaction"}
    /\ ret.total_weight = 85

\* C2: composite_score is weighted_sum / total_weight rounded to 1 decimal
\* whenever total_weight > 0, and null exactly when total_weight is 0, also
\* when every contributing score is 0.
C2_CompositeIsQuotientUnlessNoWeight ==
    pc = "composite" =>
        /\ ret.total_weight > 0 =>
              ret.composite_score
                = Some(Round1(ExpectedWeightedSum, ret.total_weight))
        /\ IsNone(ret.composite_score) <=> ret.total_weight = 0

\* C3: with non-negative weights of positive sum and a school that has data
\* for all 8 categories, composite_score is a number in 0..100.
C3_CompleteDataScoresInRange ==
    ( /\ pc = "composite"
      /\ \A c \in DOMAIN ArgWeights : ArgWeights[c] >= 0
      /\ SumOver(DOMAIN ArgWeights, ArgWeights) > 0
      /\ CompleteData )
    => ( /\ ~IsNone(ret.composite_score)
         /\ Val(ret.composite_score) >= 0
         /\ Val(ret.composite_score) <= Points(100) )

\* C4: when every category named in weights has a null score, the call
\* returns composite_score null and total_weight 0.
C4_AllNullGivesNull ==
    (pc = "composite" /\ NonNullCategories = {}) =>
        (IsNone(ret.composite_score) /\ ret.total_weight = 0)

\* a call whose weights name only categories the school has no data for,
\* one of them with a positive weight
C4_Witness ==
    /\ pc = "composite"
    /\ NonNullCategories = {}
    /\ \E c \in NullCategories : ArgWeights[c] > 0

----------------------------------------------------------------------------
(* Claims about rank_schools and _passes_filters, under SpecRank *)

\* C5: the ranking holds exactly the schools of the collection that pass the
\* filters and have a non-null composite: every entry is such a school with
\* its composite, and every such school has an entry.
C5_RankingIsFilteredAndScored ==
    pc = "ranked" =>
        /\ \A k \in 1..Len(ret) :
              /\ ~IsNone(ret[k].score_data.composite_score)
              /\ \E i \in 1..Len(schools) :
                    /\ ret[k].school = schools[i]
                    /\ Passes(schools[i])
                    /\ ret[k].score_data = Composite(schools[i])
        /\ \A i \in 1..Len(schools) :
              (Passes(schools[i])
                 /\ ~IsNone(Composite(schools[i]).composite_score))
              => InOutput(i)

\* a ranking with a school kept, a school filtered out and a school dropped
\* for its null composite
C5_Witness ==
    /\ pc = "ranked"
    /\ \E i, j, k \in 1..Len(schools) :
          /\ InOutput(i)
          /\ ~Passes(schools[j])
          /\ Passes(schools[k])
          /\ IsNone(Composite(schools[k]).composite_score)
          /\ ~InOutput(k)

\* C6: the ranking is ordered by composite_score descending.
C6_RankingIsDescending ==
    pc = "ranked" =>
        \A i, j \in 1..Len(ret) : i < j => RankScore(i) >= RankScore(j)

\* a ranking in which a school loaded later stands before an earlier one
\* with a lower score
C6_Witness ==
    /\ pc = "ranked"
    /\ \E i, j \in 1..Len(ret) :
          /\ i < j
          /\ RankScore(i) > RankScore(j)
          /\ ret[i].school.id > ret[j].school.id

\* C7: the ranking is stable: schools with equal composite_score stand in
\* the order they have in the collection (ids are load positions).
C7_RankingIsStable ==
    pc = "ranked" =>
        \A i, j \in 1..Len(ret) :
            (i < j /\ RankScore(i) = RankScore(j))
            => ret[i].school.id < ret[j].school.id

\* a ranking with two schools of equal score, the sort having moved a third
C7_Witness ==
    /\ pc = "ranked"
    /\ \E i, j \in 1..Len(ret) : i < j /\ RankScore(i) = RankScore(j)
    /\ \E i, j \in 1..Len(ret) : i < j /\ ret[i].school.id > ret[j].school.id

\* C8 as stated: under a city, religious_affiliation or max_commute_minutes
\* filter, a school that lacks the field the filter examines passes it.
C8_MissingFieldNeverFails ==
    pc = "ranked" =>
        \A i \in 1..Len(schools) :
            LET s == schools[i]
            IN  /\ (OnlyFilter("city") /\ IsNone(s.city))
                      => _passes_filters(s, Val(filters))
                /\ (OnlyFilter("religious_affiliation")
                      /\ IsNone(s.religious_affiliation))
                      => _passes_filters(s, Val(filters))
                /\ (OnlyFilter("max_commute_minutes") /\ IsNone(s.bike_minutes))
                      => _passes_filters(s, Val(filters))

\* C8 amended: of these three filters only max_commute_minutes lets a school
\* without the field pass; a school without a city fails every non-empty
\* city filter and a school without a religious_affiliation fails every
\* non-empty religious_affiliation filter, and neither is ranked.
C8_OnlyCommuteIsPermissive ==
    pc = "ranked" =>
        \A i \in 1..Len(schools) :
            LET s == schools[i]
            IN  /\ (OnlyFilter("max_commute_minutes") /\ IsNone(s.bike_minutes))
                      => _passes_filters(s, Val(filters))
                /\ (OnlyFilter("city") /\ Len(Val(filters)["city"]) > 0
                      /\ IsNone(s.city))
                      => (~_passes_filters(s, Val(filters)) /\ ~InOutput(i))
                /\ (OnlyFilter("religious_affiliation")
                      /\ Len(Val(filters)["religious_affiliation"]) > 0
                      /\ IsNone(s.religious_affiliation))
                      => (~_passes_filters(s, Val(filters)) /\ ~InOutput(i))

\* a ranking under a non-empty city filter that leaves out a school for
\* having no city, though the school has a composite
C8_Witness ==
    /\ pc = "ranked"
    /\ OnlyFilter("city")
    /\ Len(Val(filters)["city"]) > 0
    /\ \E i \in 1..Len(schools) :
          /\ IsNone(schools[i].city)
          /\ ~IsNone(Composite(schools[i]).composite_score)
          /\ ~InOutput(i)

\* C9 as stated: with filters = {city: c} a school passes iff its city equals
\* c ignoring case, and a school whose city differs is not ranked.
C9_CityFilterIsExactMatch ==
    (pc = "ranked" /\ OnlyFilter("city")) =>
        \A i \in 1..Len(schools) :
            LET s == schools[i]
                matches == /\ ~IsNone(s.city)
                           /\ EqualIgnoringCase(Val(s.city), Val(filters)["city"])
            IN  /\ _passes_filters(s, Val(filters)) <=> matches
                /\ ~matches => ~InOutput(i)

\* C9 amended: for a non-empty c the school passes iff its city equals c
\* ignoring case, and no other school is ranked; for the empty c the filter
\* is off and every school passes.
C9_NonEmptyCityFilterIsExactMatch ==
    (pc = "ranked" /\ OnlyFilter("city")) =>
        \A i \in 1..Len(schools) :
            LET s == schools[i]
                c == Val(filters)["city"]
                matches == ~IsNone(s.city) /\ EqualIgnoringCase(Val(s.city), c)
            IN  IF Len(c) > 0
                THEN /\ _passes_filters(s, Val(filters)) <=> matches
                     /\ ~matches => ~InOutput(i)
                ELSE _passes_filters(s, Val(filters))

\* a ranking under a non-empty city filter that keeps a school whose city is
\* spelled in another case and leaves out a school of another city
C9_Witness ==
    /\ pc = "ranked"
    /\ OnlyFilter("city")
    /\ Len(Val(filters)["city"]) > 0
    /\ \E i, j \in 1..Len(schools) :
          /\ InOutput(i)
          /\ ~IsNone(schools[i].city)
          /\ Val(schools[i].city) # Val(filters)["city"]
          /\ ~IsNone(schools[j].city)
          /\ ~InOutput(j)
          /\ ~IsNone(Composite(schools[j]).composite_score)

\* C10: with filters = {max_commute_minutes: m} a school fails iff its bike
\* duration is present and greater than m, and then is not ranked; a school
\* without a bike duration passes whatever its transit duration.
C10_CommuteFilterReadsBikeOnly ==
    (pc = "ranked" /\ OnlyFilter("max_commute_minutes")) =>
        \A i \in 1..Len(schools) :
            LET s == schools[i]
                m == Val(filters)["max_commute_minutes"]
                tooFar == ~IsNone(s.bike_minutes) /\ Val(s.bike_minutes) > m
            IN  /\ ~_passes_filters(s, Val(filters)) <=> tooFar
                /\ tooFar => ~InOutput(i)
                /\ (~tooFar /\ ~IsNone(Composite(s).composite_score))
                      => InOutput(i)

\* a ranking under a commute limit that leaves out a school for its bike
\* duration and keeps a school with no bike duration whose transit duration
\* is over the limit
C10_Witness ==
    /\ pc = "ranked"
    /\ OnlyFilter("max_commute_minutes")
    /\ \E i, j \in 1..Len(schools) :
          /\ ~IsNone(schools[i].bike_minutes)
          /\ Val(schools[i].bike_minutes) > Val(filters)["max_commute_minutes"]
          /\ ~InOutput(i)
          /\ IsNone(schools[j].bike_minutes)
          /\ ~IsNone(schools[j].transit_minutes)
          /\ Val(schools[j].transit_minutes)
                > Val(filters)["max_commute_minutes"]
          /\ InOutput(j)

----------------------------------------------------------------------------
(* Claims about the school_type filter, under SpecRank *)

\* C11: with filters = {school_type: l} and l non-empty a school passes iff
\* one of the types of l is in the school's type list (a school without a
\* type field does not pass), and a school that does not pass is not ranked;
\* with l empty every school passes and every school with a composite is
\* ranked.
C11_SchoolTypeFilterIsIntersection ==
    (pc = "ranked" /\ OnlyFilter("school_type")) =>
        \A i \in 1..Len(schools) :
            LET s == schools[i]
                l == Val(filters)["school_type"]
                wanted == {l[k] : k \in 1..Len(l)}
                offered == IF IsNone(s.type) THEN {}
                           ELSE {Val(s.type)[k] : k \in 1..Len(Val(s.type))}
            IN  IF Len(l) > 0
                THEN /\ _passes_filters(s, Val(filters))
                           <=> (wanted \cap offered # {})
                     /\ (wanted \cap offered = {}) => ~InOutput(i)
                     /\ (wanted \cap offered # {}
                           /\ ~IsNone(Composite(s).composite_score))
                           => InOutput(i)
                ELSE /\ _passes_filters(s, Val(filters))
                     /\ ~IsNone(Composite(s).composite_score) => InOutput(i)

\* a ranking under a school_type filter of two types that keeps a school
\* offering one of them, leaves out a school offering other types and leaves
\* out a school without a type field
C11_Witness ==
    /\ pc = "ranked"
    /\ OnlyFilter("school_type")
    /\ Len(Val(filters)["school_type"]) = 2
    /\ \E i, j, k \in 1..Len(schools) :
          /\ InOutput(i)
          /\ ~IsNone(schools[i].type)
          /\ ~IsNone(schools[j].type)
          /\ ~IsNone(Composite(schools[j]).composite_score)
          /\ ~InOutput(j)
          /\ IsNone(schools[k].type)
          /\ ~IsNone(Composite(schools[k]).composite_score)
          /\ ~InOutput(k)

----------------------------------------------------------------------------
(* Claims about the category scorers, under SpecScorers *)

\* C14: the proximity score is never negative and does not rise with the
\* commute: whenever the scorer returns a score for m minutes, every record
\* scored for m or more minutes gets at most that score, across the
\* breakpoints at 10 and 30 minutes too.
C14_ProximityIsMonotone ==
    (Scored("proximity") /\ HasScore) =>
        /\ Val(ret.result.score) >= 0
        /\ \A s2 \in ProximitySchools :
              LET r2 == calculate_proximity_score(s2)
              IN  (~IsNone(r2.score)
                     /\ Val(r2.details.mins) >= Val(ret.result.details.mins))
                     => Val(r2.score) <= Val(ret.result.score)

\* a commute of 31 minutes scored below a commute of 30 minutes, which is
\* scored below a commute of 10 minutes, and the longest commute scored 0
C14_Witness ==
    /\ Scored("proximity")
    /\ HasScore
    /\ ret.result.details.mins = Some(31)
    /\ Val(ProximityAt(30)) > Val(ret.result.score)
    /\ Val(ProximityAt(10)) > Val(ProximityAt(30))
    /\ ProximityAt(MaxMinutes) = Some(0)

\* C15: the proximity scorer returns 100 points for a record whose commute
\* is 0 minutes and 90 points for a record whose commute is 10 minutes.
C15_ZeroAndTenMinutes ==
    Scored("proximity") =>
        /\ OnlyCommute(Val(school), 0) => ret.result.score = Some(Points(100))
        /\ OnlyCommute(Val(school), 10) => ret.result.score = Some(Points(90))

\* C16: the proximity scorer returns 70 points for a record whose commute is
\* 30 minutes and 50 points for a record whose commute is 60 minutes.
C16_ThirtyAndSixtyMinutes ==
    Scored("proximity") =>
        /\ OnlyCommute(Val(school), 30) => ret.result.score = Some(Points(70))
        /\ OnlyCommute(Val(school), 60) => ret.result.score = Some(Points(50))

\* C17: the school-size score is the entry of the preference-vs-bucket
\* table for the given preference and the bucket of the school; the
\* preference any and every preference that is not small, medium, large or
\* any give 80 for every bucket; preference small with 1200 students gives 50.
C17_SizeScoreIsTableEntry ==
    (Scored("school_size") /\ HasScore) =>
        LET p == ret.preferred_size
            b == ret.result.details.size_category
            col == CASE b = "small" -> 1 [] b = "medium" -> 2
                     [] b = "large" -> 3 [] b = "very_large" -> 4
            entry == CASE p = "small" -> <<100, 70, 50, 30>>[col]
                       [] p = "medium" -> <<70, 100, 80, 60>>[col]
                       [] p = "large" -> <<50, 80, 100, 90>>[col]
                       [] OTHER -> 80
        IN  /\ ret.result.score = Some(Points(entry))
            /\ (p = "small" /\ Val(school).enrollment_total = Some(1200))
                  => ret.result.score = Some(Points(50))

\* the size scorer called with a preference that is no row of the table, on
\* a school of more than 1500 students, returning 80 points
C17_Witness ==
    /\ Scored("school_size")
    /\ HasScore
    /\ ret.preferred_size \notin {"small", "medium", "large", "any"}
    /\ Val(Val(school).enrollment_total) > 1500
    /\ ret.result.score = Some(Points(80))
    /\ Points(50) =
          Val(calculate_school_size_score(
                [BlankSchool EXCEPT !.enrollment_total = Some(1200)],
                "small").score)

\* C18 as stated: a positive enrollment is small below 500, medium from 500
\* to 999, large from 1000 to 1500 and very_large above 1500.
C18_BucketsLargeFrom1000 ==
    (Scored("school_size") /\ HasScore) =>
        LET e == Val(Val(school).enrollment_total)
            b == ret.result.details.size_category
        IN  /\ e < 500 => b = "small"
            /\ (500 <= e /\ e <= 999) => b = "medium"
            /\ (1000 <= e /\ e <= 1500) => b = "large"
            /\ e > 1500 => b = "very_large"

\* C18 amended: a positive enrollment is small below 500, medium from 500 to
\* 1000, large from 1001 to 1500 and very_large above 1500.
C18_BucketsLargeAbove1000 ==
    (Scored("school_size") /\ HasScore) =>
        LET e == Val(Val(school).enrollment_total)
            b == ret.result.details.size_category
        IN  /\ e < 500 => b = "small"
            /\ (500 <= e /\ e <= 1000) => b = "medium"
            /\ (1001 <= e /\ e <= 1500) => b = "large"
            /\ e > 1500 => b = "very_large"

\* the size scorer called on a school of exactly 1000 students, returning
\* the bucket medium
C18_Witness ==
    /\ Scored("school_size")
    /\ Val(school).enrollment_total = Some(1000)
    /\ ret.result.details.size_category = "medium"

\* C19: for every school in which a level has a pass rate the academic score
\* is min(final + bonus, 100) rounded to 1 decimal, where current is the
\* mean of the pass rates of the levels that have one, weighted 0.7, 1.0 and
\* 1.5 for vmbo, havo and vwo, final is 0.7 current + 0.3 mean of the 5-year
\* averages when a level has one and current otherwise, and bonus is
\* min(total_candidates / 500 * 5, 5); the score is null only when no level
\* has a pass rate; only vwo with pass rate 80, no 5-year average and 400
\* candidates gives 84.0.
C19_AcademicScoreFormula ==
    Scored("academic_performance") =>
        LET exam == Val(school).exam_scores
            known == Levels \cap DOMAIN exam
            present == {l \in known : ~IsNone(exam[l].pass_rate_2024_2025)}
            withAvg == {l \in known : ~IsNone(exam[l].average_pass_rate_5yr)}
            withCand == {l \in known : ~IsNone(exam[l].candidates_2024_2025)}
            w == [vmbo |-> 7, havo |-> 10, vwo |-> 15]
            \* current = cn / cd, mean of averages = an / ad (tenths of a %)
            cn == SumOver(present,
                    [l \in present |-> Val(exam[l].pass_rate_2024_2025) * w[l]])
            cd == SumOver(present, [l \in present |-> w[l]])
            an == SumOver(withAvg,
                    [l \in withAvg |-> Val(exam[l].average_pass_rate_5yr)])
            ad == Cardinality(withAvg)
            \* final = fn / fd
            fn == IF ad > 0 THEN 7 * cn * ad + 3 * an * cd ELSE cn
            fd == IF ad > 0 THEN 10 * cd * ad ELSE cd
            total == SumOver(withCand,
                    [l \in withCand |-> Val(exam[l].candidates_2024_2025)])
            \* bonus in hundredths of a point: total / 500 * 5 = total / 100
            bonus == Min(total, 500)
            \* final + bonus in tenths = sn / sd
            sn == 10 * fn + bonus * fd
            sd == 10 * fd
            expected == IF sn >= 1000 * sd THEN 1000 ELSE Round1(sn, sd)
        IN  /\ present # {} => ret.result.score = Some(expected)
            /\ present = {} => ret.result.score = None
            /\ exam = VwoOnly => ret.result.score = Some(840)

\* C20: a satisfaction scorer returns null iff the review sequence is empty
\* or its first review has no overall_rating; otherwise the score is the
\* rating of the first review times 10, rounded to 1 decimal, for every
\* rating in 0..10, and the reviews after the first do not matter.
C20_SatisfactionIsFirstRating ==
    (Scored("parent_satisfaction") \/ Scored("student_satisfaction")) =>
        LET reviews == IF ret.scorer = "parent_satisfaction"
                       THEN Val(school).parent_reviews
                       ELSE Val(school).student_reviews
            lacking == Len(reviews) = 0 \/ IsNone(reviews[1].overall_rating)
            first == [BlankSchool EXCEPT
                        !.parent_reviews = FirstOnly(Val(school).parent_reviews),
                        !.student_reviews =
                            FirstOnly(Val(school).student_reviews)]
        IN  /\ IsNone(ret.result.score) <=> lacking
            /\ ~lacking =>
                  ret.result.score
                     = Some(Round1(Val(reviews[1].overall_rating), 10))
            /\ ret.result = CategoryScore(ret.scorer, first, "medium")

\* C13: on a record that has id and basic_info.name and in which every other
\* part, at every nesting level, is absent, empty or filled, no category
\* scorer raises: each returns a result with the fields score and details,
\* the score being null or a number of 0..100; on the record with nothing
\* but id and name the five scorers that need data return null and the
\* other three return 50.
C13_NoScorerRaisesOnSparseRecord ==
    pc = "sparse" =>
        /\ ~ret.raised
        /\ DOMAIN ret.result = {"score", "details"}
        /\ \/ IsNone(ret.result.score)
           \/ Val(ret.result.score) \in 0..Points(100)
        /\ (DOMAIN ret.record = {"id", "basic_info"}
              /\ DOMAIN ret.record.basic_info = {"name"}) =>
              ret.result.score
                 = IF ret.scorer \in {"facilities", "extracurriculars",
                                      "special_programs"}
                   THEN Some(Points(50)) ELSE None

\* the academic scorer returning a score for a record whose vmbo object is
\* empty, whose havo object has no pass rate and whose location is absent
C13_Witness ==
    /\ pc = "sparse"
    /\ ret.scorer = "academic_performance"
    /\ "location" \notin DOMAIN ret.record
    /\ "academic_performance" \in DOMAIN ret.record
    /\ "exam_scores" \in DOMAIN ret.record.academic_performance
    /\ LET x == ret.record.academic_performance.exam_scores
       IN  /\ DOMAIN x = Levels
           /\ x.vmbo = Empty
           /\ DOMAIN x.havo = {"candidates_2024_2025"}
    /\ ~ret.raised
    /\ ~IsNone(ret.result.score)

\* C21: the facilities score is never null: it is 50, plus 15 for a
\* technology description, plus 15 for a listed sports facility, plus 10 for
\* a classrooms_labs_quality text of more than 50 characters, plus 10 for a
\* library entry; it lies in 50..100 and is 50 without facilities data.
C21_FacilitiesScoreIsSumOfAmenities ==
    Scored("facilities") =>
        LET s == Val(school)
            tech == "description" \in DOMAIN s.technology
                       /\ s.technology.description # <<>>
            points == 50 + (IF tech THEN 15 ELSE 0)
                         + (IF s.sports_facilities # <<>> THEN 15 ELSE 0)
                         + (IF Len(s.classrooms_labs_quality) >= 51
                            THEN 10 ELSE 0)
                         + (IF s.library # {} THEN 10 ELSE 0)
        IN  /\ HasScore
            /\ ret.result.score = Some(Points(points))
            /\ Val(ret.result.score) \in Points(50)..Points(100)
            /\ s = BlankSchool => ret.result.score = Some(Points(50))

\* the facilities scorer returning 75 points for a technology description, a
\* library and a classrooms text of fewer than 51 characters
C21_Witness ==
    /\ Scored("facilities")
    /\ "description" \in DOMAIN Val(school).technology
    /\ Val(school).sports_facilities = <<>>
    /\ Len(Val(school).classrooms_labs_quality) \in 1..50
    /\ Val(school).library # {}
    /\ ret.result.score = Some(Points(75))

\* C24: the amenity categories named in the details of the facilities
\* scorer are those that added points to the score (technology, sports,
\* classrooms, library), and details is 'Basic facilities' exactly when the
\* score is the base 50.
C24_DetailsNameContributors ==
    Scored("facilities") =>
        LET s == Val(school)
            contributed ==
                (IF "description" \in DOMAIN s.technology
                    /\ s.technology.description # <<>>
                 THEN {"technology"} ELSE {})
                \cup (IF s.sports_facilities # <<>> THEN {"sports"} ELSE {})
                \cup (IF Len(s.classrooms_labs_quality) >= 51
                      THEN {"specialized classrooms"} ELSE {})
                \cup (IF s.library # {} THEN {"library"} ELSE {})
        IN  /\ ret.result.details # {"Basic facilities"}
                  => ret.result.details = contributed
            /\ ret.result.details = {"Basic facilities"}
                  <=> ret.result.score = Some(Points(50))

\* C22: the total_candidates the academic scorer reports, which feeds the
\* reliability bonus, is the sum of candidates_2024_2025 over the levels
\* whose pass rate entered the current rate; the candidates of a level
\* without a pass rate do not count.
C22_BonusCountsPresentLevels ==
    (Scored("academic_performance") /\ HasScore) =>
        LET exam == Val(school).exam_scores
            present == {l \in Levels \cap DOMAIN exam :
                           TruthyNum(exam[l].pass_rate_2024_2025)}
            counted == {l \in present :
                           ~IsNone(exam[l].candidates_2024_2025)}
        IN  ret.result.details.total_candidates
               = SumOver(counted,
                    [l \in counted |-> Val(exam[l].candidates_2024_2025)])

\* C23: the proximity scorer scores the bike duration whenever the record
\* has one, whatever its value and whatever the transit duration, scores the
\* transit duration only when there is no bike duration, returns null only
\* when there is neither, and names in details the mode it scored.
C23_BikeIsPrimaryWheneverPresent ==
    Scored("proximity") =>
        LET bike == Val(school).bike_minutes
            transit == Val(school).transit_minutes
        IN  /\ ~IsNone(bike) =>
                  /\ ret.result.details.mins = bike
                  /\ ret.result.details.method = "bike"
            /\ (IsNone(bike) /\ ~IsNone(transit)) =>
                  /\ ret.result.details.mins = transit
                  /\ ret.result.details.method = "transit"
            /\ IsNone(ret.result.score) <=> (IsNone(bike) /\ IsNone(transit))

----------------------------------------------------------------------------
(* Further claims about calculate_composite_score, under SpecScore *)

\* C25: when some category of the weights map has a positive weight and a
\* non-null score, the composite is a number between the smallest and the
\* largest score of those categories.
C25_CompositeBetweenContributors ==
    pc = "composite" =>
        LET contributing == {c \in NonNullCategories : ArgWeights[c] > 0}
            scoreOf(c) == Val(ret.category_scores[c].score)
        IN  contributing # {} =>
               /\ ~IsNone(ret.composite_score)
               /\ \E c \in contributing :
                     scoreOf(c) <= Val(ret.composite_score)
               /\ \E c \in contributing :
                     scoreOf(c) >= Val(ret.composite_score)

----------------------------------------------------------------------------
(* Further claims about rank_schools, under SpecRank *)

\* C26: with the default weights and no filters the ranking holds every
\* school of the collection exactly once, whatever data the school lacks:
\* its facilities, extracurriculars and special_programs scores are numbers
\* of at least 50, so its composite is a number.
C26_DefaultRankingKeepsEverySchool ==
    (pc = "ranked" /\ IsNone(weights) /\ ~FiltersApply) =>
        /\ Len(ret) = Len(schools)
        /\ \A i \in 1..Len(schools) :
              /\ Cardinality({k \in 1..Len(ret) :
                                 ret[k].school = schools[i]}) = 1
              /\ ~IsNone(Composite(schools[i]).composite_score)
              /\ \A c \in {"facilities", "extracurriculars",
                           "special_programs"} :
                    LET r == Composite(schools[i]).category_scores[c]
                    IN  ~IsNone(r.score) /\ Val(r.score) >= Points(50)

\* a ranking with the default weights and an empty filters map that holds
\* all schools of a collection of two or more, one of them a school with no
\* data but a transit duration
C26_Witness ==
    /\ pc = "ranked"
    /\ IsNone(weights)
    /\ filters = Some(<<>>)
    /\ Len(schools) >= 2
    /\ Len(ret) = Len(schools)
    /\ \E k \in 1..Len(ret) :
          [ret[k].school EXCEPT !.id = 0]
             = [BlankSchool EXCEPT !.transit_minutes = Some(45)]

\* C27: whatever calls of rank_schools are made, with whatever weights,
\* preferences and filters, the collection of the scorer stays as it was
\* (same schools, same order), and a ranking never holds a school twice or
\* a school that is not in the collection.
C27_RankingLeavesCollectionAlone ==
    /\ [][schools' = schools]_vars
    /\ [](pc = "ranked" =>
            /\ \A k \in 1..Len(ret) :
                  \E i \in 1..Len(schools) : ret[k].school = schools[i]
            /\ \A k1, k2 \in 1..Len(ret) :
                  ret[k1].school = ret[k2].school => k1 = k2)

\* a ranking that leaves out a school under its filters and puts the second
\* school of the collection first
C27_Witness ==
    /\ pc = "ranked"
    /\ FiltersApply
    /\ Len(ret) >= 2
    /\ Len(ret) < Len(schools)
    /\ ret[1].school = schools[2]

----------------------------------------------------------------------------
(* Further claims about the weights map, under SpecScore *)

\* C28: a key of the weights map that names none of the 8 categories is
\* ignored: the call returns a result, and its composite_score and
\* total_weight are those of the call with that key taken out of the map.
C28_UnknownWeightKeyIsIgnored ==
    (pc = "composite" /\ ~IsNone(weights)) =>
        LET known == DOMAIN Val(weights) \cap Categories
            pruned == [c \in known |-> Val(weights)[c]]
            other == calculate_composite_score(Val(school), Some(pruned),
                                               preferences)
        IN  /\ DOMAIN ret = {"composite_score", "category_scores",
                             "weights_used", "total_weight"}
            /\ ret.composite_score = other.composite_score
            /\ ret.total_weight = other.total_weight
            /\ ret.total_weight = ExpectedTotalWeight

\* a call whose weights map holds a key that names no category, with a
\* positive weight, next to a category that has a score, returning a composite
C28_Witness ==
    /\ pc = "composite"
    /\ ~IsNone(weights)
    /\ "reputation" \in DOMAIN Val(weights)
    /\ Val(weights)["reputation"] > 0
    /\ ret.total_weight > 0
    /\ ret.total_weight < SumOver(DOMAIN Val(weights), Val(weights))
    /\ ~IsNone(ret.composite_score)

-----------------------------------------------------------------------------
(* Claims about the Streamlit session, under SpecWeightsPage and          *)
(* SpecFavorites                                                           *)

\* C29: whatever sliders were moved, size preferences chosen, schools
\* scored or ranked and resets pressed, the class attribute
\* SchoolScorer.DEFAULT_WEIGHTS still holds 30/20/15/10/10/5/5/5; and
\* right after "Reset to Defaults" the session weights equal those
\* defaults and the preference is school_size = 'medium'.
C29_DefaultsSurviveTheSession ==
    /\ dicts.DEFAULT_WEIGHTS = DEFAULT_WEIGHTS
    /\ pc = "reset" =>
          /\ SessionWeights = DEFAULT_WEIGHTS
          /\ session_state.preferences = [school_size |-> "medium"]

\* a reset pressed after a page scored with moved sliders and another size
C29_Witness ==
    /\ pc = "reset"
    /\ ~IsNone(weights)
    /\ Val(weights) # DEFAULT_WEIGHTS
    /\ Val(preferences).school_size # "medium"
    /\ SessionWeights = DEFAULT_WEIGHTS

\* C30: the favorite button of a school removes its id from the session
\* favorites when it was there and adds it when it was not, changes no
\* other id's membership, pressed twice in a row on the same school gives
\* back the favorites of before, and whenever its save was written the
\* favorites a load of the file yields are the session favorites.
C30_ToggleFlipsOneSchoolAndIsSaved ==
    pc = "toggled" =>
       LET school_id == ret.school_id
           favorites == session_state.favorites
       IN  /\ school_id \in favorites <=> school_id \notin ret.before
           /\ favorites \ {school_id} = ret.before \ {school_id}
           /\ (~IsNone(ret.earlier)
                 /\ Val(ret.earlier).school_id = school_id)
                 => favorites = Val(ret.earlier).before
           /\ ret.saved => load_favorites(favorites_file) = favorites

\* a second press on the same school removed it again, other favorites
\* stayed, and the save was written
C30_Witness ==
    /\ pc = "toggled"
    /\ ret.saved
    /\ ~IsNone(ret.earlier)
    /\ Val(ret.earlier).school_id = ret.school_id
    /\ ret.school_id \in ret.before
    /\ session_state.favorites # {}
    /\ load_favorites(favorites_file) = session_state.favorites

----------------------------------------------------------------------------
(* Claims about repeated calls, under SpecRepeat *)

====
